---- MODULE Spec2Model ----
(***************************************************************************)
(* Model of internal/http/handler/ec2.go of tinkerbell/hegel: the EC2      *)
(* metadata handler, its filter registry (ec2Filters), the path            *)
(* normaliser (processEC2Query) and the jq based filter (filterMetadata).  *)
(*                                                                         *)
(* Text (Go strings and []byte) is a sequence of one-character strings,    *)
(* so trimming, joining and sorting are computed character by character.   *)
(* A JSON value is a tagged record [t |-> tag, v |-> payload].  A jq query *)
(* is kept in parsed form (the tree gojq.Parse builds); the source text of *)
(* each registry query is quoted next to its tree.                         *)
(***************************************************************************)
EXTENDS Integers, Sequences, FiniteSets, TLC

VARIABLES pc, req, resp, query, fm

vars == <<pc, req, resp, query, fm>>

-----------------------------------------------------------------------------
(* Text *)

\* Byte value of each character used by the model (Go compares strings bytewise).
Code ==
    "\n" :> 10 @@ " " :> 32 @@ "\"" :> 34 @@ "," :> 44 @@ "-" :> 45 @@ "." :> 46 @@
    "/" :> 47 @@ "0" :> 48 @@ "1" :> 49 @@ "2" :> 50 @@ "3" :> 51 @@ "4" :> 52 @@
    "5" :> 53 @@ "6" :> 54 @@ "7" :> 55 @@ "8" :> 56 @@ "9" :> 57 @@ ":" :> 58 @@
    "[" :> 91 @@ "\\" :> 92 @@ "]" :> 93 @@ "_" :> 95 @@ "a" :> 97 @@ "b" :> 98 @@
    "c" :> 99 @@ "d" :> 100 @@ "e" :> 101 @@ "f" :> 102 @@ "g" :> 103 @@ "h" :> 104 @@
    "i" :> 105 @@ "j" :> 106 @@ "k" :> 107 @@ "l" :> 108 @@ "m" :> 109 @@ "n" :> 110 @@
    "o" :> 111 @@ "p" :> 112 @@ "q" :> 113 @@ "r" :> 114 @@ "s" :> 115 @@ "t" :> 116 @@
    "u" :> 117 @@ "v" :> 118 @@ "w" :> 119 @@ "x" :> 120 @@ "y" :> 121 @@ "z" :> 122 @@
    "{" :> 123 @@ "}" :> 125

NL == <<"\n">>

\* Go string comparison a < b: bytewise lexicographic, a proper prefix is smaller.
RECURSIVE StrLess(_, _)
StrLess(a, b) ==
    IF b = <<>> THEN FALSE
    ELSE IF a = <<>> THEN TRUE
    ELSE IF Code[Head(a)] # Code[Head(b)] THEN Code[Head(a)] < Code[Head(b)]
    ELSE StrLess(Tail(a), Tail(b))

HasPrefix(s, prefix) ==
    Len(s) >= Len(prefix) /\ SubSeq(s, 1, Len(prefix)) = prefix

HasSuffix(s, suffix) ==
    Len(s) >= Len(suffix) /\ SubSeq(s, Len(s) - Len(suffix) + 1, Len(s)) = suffix

\* A TrimPrefix that cuts len(prefix) characters without looking at them.
TrimPrefixUnchecked(s, prefix) == SubSeq(s, Len(prefix) + 1, Len(s))

\* strings.TrimPrefix: s without the leading prefix, once; s itself otherwise.
TrimPrefix(s, prefix) ==
    IF HasPrefix(s, prefix) THEN SubSeq(s, Len(prefix) + 1, Len(s)) ELSE s

\* A TrimSuffix that goes on while the suffix is there.
RECURSIVE TrimSuffixRepeated(_, _)
TrimSuffixRepeated(s, suffix) ==
    IF suffix # <<>> /\ HasSuffix(s, suffix)
    THEN TrimSuffixRepeated(SubSeq(s, 1, Len(s) - Len(suffix)), suffix)
    ELSE s

\* bytes.TrimSuffix: s without the trailing suffix, once; s itself otherwise.
TrimSuffix(s, suffix) ==
    IF HasSuffix(s, suffix) THEN SubSeq(s, 1, Len(s) - Len(suffix)) ELSE s

\* strings.TrimRight(s, cutset): s without every trailing character of cutset.
RECURSIVE TrimRight(_, _)
TrimRight(s, cutset) ==
    IF s # <<>> /\ s[Len(s)] \in cutset
    THEN TrimRight(SubSeq(s, 1, Len(s) - 1), cutset)
    ELSE s

-----------------------------------------------------------------------------
(* JSON values, as encoding/json and gojq hold them *)

JNull == [t |-> "null", v |-> 0]
JBool(b) == [t |-> "bool", v |-> b]
JNum(n) == [t |-> "num", v |-> n]
JStr(s) == [t |-> "str", v |-> s]
JArr(s) == [t |-> "arr", v |-> s]
JObj(f) == [t |-> "obj", v |-> f]
\* A float64 NaN: gojq can yield it (the builtin nan), encoding/json cannot encode it.
JNaN == [t |-> "nan", v |-> 0]
\* The error value a gojq iterator yields.
JErr == [t |-> "error", v |-> 0]

EmptyMap == [k \in {} |-> JNull]

\* Spelling of every object key the documents of the model use.
KeyText ==
    "address" :> <<"a", "d", "d", "r", "e", "s", "s">> @@
    "address_family" :> <<"a", "d", "d", "r", "e", "s", "s", "_", "f", "a", "m", "i", "l", "y">> @@
    "addresses" :> <<"a", "d", "d", "r", "e", "s", "s", "e", "s">> @@
    "distro" :> <<"d", "i", "s", "t", "r", "o">> @@
    "facility" :> <<"f", "a", "c", "i", "l", "i", "t", "y">> @@
    "hostname" :> <<"h", "o", "s", "t", "n", "a", "m", "e">> @@
    "id" :> <<"i", "d">> @@
    "image_tag" :> <<"i", "m", "a", "g", "e", "_", "t", "a", "g">> @@
    "instance" :> <<"i", "n", "s", "t", "a", "n", "c", "e">> @@
    "iqn" :> <<"i", "q", "n">> @@
    "license_activation" :> <<"l", "i", "c", "e", "n", "s", "e", "_", "a", "c", "t", "i", "v", "a", "t", "i", "o", "n">> @@
    "metadata" :> <<"m", "e", "t", "a", "d", "a", "t", "a">> @@
    "network" :> <<"n", "e", "t", "w", "o", "r", "k">> @@
    "operating_system" :> <<"o", "p", "e", "r", "a", "t", "i", "n", "g", "_", "s", "y", "s", "t", "e", "m">> @@
    "plan" :> <<"p", "l", "a", "n">> @@
    "public" :> <<"p", "u", "b", "l", "i", "c">> @@
    "slug" :> <<"s", "l", "u", "g">> @@
    "spot" :> <<"s", "p", "o", "t">> @@
    "ssh_keys" :> <<"s", "s", "h", "_", "k", "e", "y", "s">> @@
    "state" :> <<"s", "t", "a", "t", "e">> @@
    "tags" :> <<"t", "a", "g", "s">> @@
    "termination_time" :> <<"t", "e", "r", "m", "i", "n", "a", "t", "i", "o", "n", "_", "t", "i", "m", "e">> @@
    "userdata" :> <<"u", "s", "e", "r", "d", "a", "t", "a">> @@
    "version" :> <<"v", "e", "r", "s", "i", "o", "n">>

\* The keys of a map in sorted order (encoding/json and gojq both walk maps so).
RECURSIVE SortedKeys(_)
SortedKeys(ks) ==
    IF ks = {} THEN <<>>
    ELSE LET m == CHOOSE k \in ks : \A o \in ks \ {k} : StrLess(KeyText[k], KeyText[o])
         IN  <<m>> \o SortedKeys(ks \ {m})

Digit == <<"0", "1", "2", "3", "4", "5", "6", "7", "8", "9">>

\* Decimal text of a natural number.
RECURSIVE Itoa(_)
Itoa(n) == IF n < 10 THEN <<Digit[n + 1]>> ELSE Itoa(n \div 10) \o <<Digit[(n % 10) + 1]>>

\* encoding/json string escapes for the characters of the model.
RECURSIVE Escape(_)
Escape(s) ==
    IF s = <<>> THEN <<>>
    ELSE (CASE Head(s) = "\"" -> <<"\\", "\"">>
            [] Head(s) = "\\" -> <<"\\", "\\">>
            [] Head(s) = "\n" -> <<"\\", "n">>
            [] OTHER -> <<Head(s)>>) \o Escape(Tail(s))

Quote(s) == <<"\"">> \o Escape(s) \o <<"\"">>

\* Whether json.Marshal accepts the value (a NaN anywhere in it is refused).
RECURSIVE Marshalable(_)
Marshalable(x) ==
    CASE x.t = "nan" -> FALSE
      [] x.t = "arr" -> \A i \in 1..Len(x.v) : Marshalable(x.v[i])
      [] x.t = "obj" -> \A k \in DOMAIN x.v : Marshalable(x.v[k])
      [] OTHER -> TRUE

\* json.Marshal: the compact JSON text of a value.
RECURSIVE ToJSON(_), ToJSONItems(_), ToJSONFields(_, _)
ToJSONItems(s) ==
    IF s = <<>> THEN <<>>
    ELSE ToJSON(Head(s)) \o
         (IF Len(s) > 1 THEN <<",">> \o ToJSONItems(Tail(s)) ELSE <<>>)
ToJSONFields(f, ks) ==
    IF ks = <<>> THEN <<>>
    ELSE Quote(KeyText[Head(ks)]) \o <<":">> \o ToJSON(f[Head(ks)]) \o
         (IF Len(ks) > 1 THEN <<",">> \o ToJSONFields(f, Tail(ks)) ELSE <<>>)
ToJSON(x) ==
    CASE x.t = "null" -> <<"n", "u", "l", "l">>
      [] x.t = "bool" -> IF x.v THEN <<"t", "r", "u", "e">> ELSE <<"f", "a", "l", "s", "e">>
      [] x.t = "num" -> Itoa(x.v)
      [] x.t = "str" -> Quote(x.v)
      [] x.t = "arr" -> <<"[">> \o ToJSONItems(x.v) \o <<"]">>
      [] x.t = "obj" -> <<"{">> \o ToJSONFields(x.v, SortedKeys(DOMAIN x.v)) \o <<"}">>

Marshal(x) == ToJSON(x)

-----------------------------------------------------------------------------
(* jq queries (gojq): the parsed query and its evaluation *)

Identity == [op |-> "id"]
Field(k) == [op |-> "field", k |-> k]
Iter == [op |-> "iter"]
Try(q) == [op |-> "try", q |-> q]
Pipe(l, r) == [op |-> "pipe", l |-> l, r |-> r]
Comma(l, r) == [op |-> "comma", l |-> l, r |-> r]
Lit(x) == [op |-> "lit", x |-> x]
Add(l, r) == [op |-> "add", l |-> l, r |-> r]
Eq(l, r) == [op |-> "eq", l |-> l, r |-> r]
Neq(l, r) == [op |-> "neq", l |-> l, r |-> r]
And(l, r) == [op |-> "and", l |-> l, r |-> r]
IfThenElse(c, a, b) == [op |-> "if", c |-> c, a |-> a, b |-> b]
Select(c) == [op |-> "select", c |-> c]
Sort == [op |-> "sort"]
Empty == [op |-> "empty"]
\* error: raises an error value.
Error == [op |-> "error"]
\* A filter text gojq.Parse rejects.
SyntaxError == [op |-> "syntaxerror"]

\* .a.b.c: a chain of field accesses.
RECURSIVE PathOf(_)
PathOf(ks) == IF Len(ks) = 1 THEN Field(ks[1]) ELSE Pipe(Field(ks[1]), PathOf(Tail(ks)))

\* [n1, n2, ...]: an array of string literals.
StrArray(names) == Lit(JArr([i \in 1..Len(names) |-> JStr(names[i])]))

HasErr(s) == s # <<>> /\ s[Len(s)] = JErr

\* jq truthiness: everything but false and null.
Truthy(x) == ~(x.t = "null" \/ (x.t = "bool" /\ x.v = FALSE))

\* Rank of a value's type in jq's sort order.
TypeRank(x) ==
    CASE x.t = "null" -> 0
      [] x.t = "bool" -> IF x.v THEN 2 ELSE 1
      [] x.t = "num" -> 3
      [] x.t = "nan" -> 3
      [] x.t = "str" -> 4
      [] x.t = "arr" -> 5
      [] x.t = "obj" -> 6

\* jq's order on values: by type, numbers by value, strings bytewise. (Arrays
\* and objects of one type keep their order: no query of the model sorts them.)
JLess(a, b) ==
    IF TypeRank(a) # TypeRank(b) THEN TypeRank(a) < TypeRank(b)
    ELSE CASE a.t = "num" /\ b.t = "num" -> a.v < b.v
           [] a.t = "str" -> StrLess(a.v, b.v)
           [] OTHER -> FALSE

RECURSIVE InsertSorted(_, _)
InsertSorted(x, s) ==
    IF s = <<>> THEN <<x>>
    ELSE IF JLess(x, Head(s)) THEN <<x>> \o s
    ELSE <<Head(s)>> \o InsertSorted(x, Tail(s))

\* A stable sort by JLess.
RECURSIVE SortValues(_)
SortValues(s) == IF s = <<>> THEN <<>> ELSE InsertSorted(s[Len(s)], SortValues(SubSeq(s, 1, Len(s) - 1)))

\* l + r in jq.
AddValues(l, r) ==
    CASE l.t = "null" -> r
      [] r.t = "null" -> l
      [] l.t = "num" /\ r.t = "num" -> JNum(l.v + r.v)
      [] l.t = "str" /\ r.t = "str" -> JStr(l.v \o r.v)
      [] l.t = "arr" /\ r.t = "arr" -> JArr(l.v \o r.v)
      [] l.t = "obj" /\ r.t = "obj" -> JObj(r.v @@ l.v)
      [] OTHER -> JErr

Binary(op, l, r) ==
    CASE op = "add" -> AddValues(l, r)
      [] op = "eq" -> JBool(l = r)
      [] op = "neq" -> JBool(l # r)

\* .[k] on one value: the field, null when absent or on null, an error otherwise.
Index(x, k) ==
    CASE x.t = "obj" -> IF k \in DOMAIN x.v THEN x.v[k] ELSE JNull
      [] x.t = "null" -> JNull
      [] OTHER -> JErr

\* .[] on one value: the elements of an array, the values of an object in key
\* order, an error on anything else (null included).
Each(x) ==
    CASE x.t = "arr" -> x.v
      [] x.t = "obj" -> LET ks == SortedKeys(DOMAIN x.v) IN [i \in 1..Len(ks) |-> x.v[ks[i]]]
      [] OTHER -> <<JErr>>

\* The outputs before the first error.
RECURSIVE BeforeErr(_)
BeforeErr(s) ==
    IF s = <<>> \/ Head(s) = JErr THEN <<>> ELSE <<Head(s)>> \o BeforeErr(Tail(s))

\* Eval(q, x): the values the iterator of q on input x yields, in order, up to
\* and including the first error value.
RECURSIVE Eval(_, _), PipeOver(_, _), BinLeft(_, _, _), BinRight(_, _, _), CondOver(_, _, _, _), AndOver(_, _, _)
PipeOver(q, xs) ==
    IF xs = <<>> THEN <<>>
    ELSE IF Head(xs) = JErr THEN <<JErr>>
    ELSE LET h == Eval(q, Head(xs))
         IN  IF HasErr(h) THEN h ELSE h \o PipeOver(q, Tail(xs))
BinLeft(op, ls, r) ==
    IF ls = <<>> THEN <<>>
    ELSE IF Head(ls) = JErr THEN <<JErr>>
    ELSE LET y == Binary(op, Head(ls), r)
         IN  IF y = JErr THEN <<JErr>> ELSE <<y>> \o BinLeft(op, Tail(ls), r)
BinRight(op, ls, rs) ==
    IF rs = <<>> THEN <<>>
    ELSE IF Head(rs) = JErr THEN <<JErr>>
    ELSE LET h == BinLeft(op, ls, Head(rs))
         IN  IF HasErr(h) THEN h ELSE h \o BinRight(op, ls, Tail(rs))
CondOver(cs, a, b, x) ==
    IF cs = <<>> THEN <<>>
    ELSE IF Head(cs) = JErr THEN <<JErr>>
    ELSE LET h == IF Truthy(Head(cs)) THEN Eval(a, x) ELSE Eval(b, x)
         IN  IF HasErr(h) THEN h ELSE h \o CondOver(Tail(cs), a, b, x)
AndOver(ls, r, x) ==
    IF ls = <<>> THEN <<>>
    ELSE IF Head(ls) = JErr THEN <<JErr>>
    ELSE LET h == IF Truthy(Head(ls))
                  THEN PipeOver([op |-> "truthy"], Eval(r, x))
                  ELSE <<JBool(FALSE)>>
         IN  IF HasErr(h) THEN h ELSE h \o AndOver(Tail(ls), r, x)
Eval(q, x) ==
    CASE q.op = "id" -> <<x>>
      [] q.op = "truthy" -> <<JBool(Truthy(x))>>
      [] q.op = "empty" -> <<>>
      [] q.op = "error" -> <<JErr>>
      [] q.op = "lit" -> <<q.x>>
      [] q.op = "field" -> <<Index(x, q.k)>>
      [] q.op = "iter" -> Each(x)
      [] q.op = "try" -> BeforeErr(Eval(q.q, x))
      [] q.op = "pipe" -> PipeOver(q.r, Eval(q.l, x))
      [] q.op = "comma" -> LET h == Eval(q.l, x) IN IF HasErr(h) THEN h ELSE h \o Eval(q.r, x)
      [] q.op = "add" -> BinRight("add", Eval(q.l, x), Eval(q.r, x))
      [] q.op = "eq" -> BinRight("eq", Eval(q.l, x), Eval(q.r, x))
      [] q.op = "neq" -> BinRight("neq", Eval(q.l, x), Eval(q.r, x))
      [] q.op = "and" -> AndOver(Eval(q.l, x), q.r, x)
      [] q.op = "if" -> CondOver(Eval(q.c, x), q.a, q.b, x)
      [] q.op = "select" -> CondOver(Eval(q.c, x), Identity, Empty, x)
      [] q.op = "sort" -> IF x.t = "arr" THEN <<JArr(SortValues(x.v))>> ELSE <<JErr>>

-----------------------------------------------------------------------------
(* The filter registry *)

N_meta_data == <<"m", "e", "t", "a", "-", "d", "a", "t", "a">>
N_user_data == <<"u", "s", "e", "r", "-", "d", "a", "t", "a">>
N_instance_id == <<"i", "n", "s", "t", "a", "n", "c", "e", "-", "i", "d">>
N_hostname == <<"h", "o", "s", "t", "n", "a", "m", "e">>
N_local_hostname == <<"l", "o", "c", "a", "l", "-", "h", "o", "s", "t", "n", "a", "m", "e">>
N_iqn == <<"i", "q", "n">>
N_plan == <<"p", "l", "a", "n">>
N_facility == <<"f", "a", "c", "i", "l", "i", "t", "y">>
N_tags == <<"t", "a", "g", "s">>
N_operating_system == <<"o", "p", "e", "r", "a", "t", "i", "n", "g", "-", "s", "y", "s", "t", "e", "m">>
N_public_keys == <<"p", "u", "b", "l", "i", "c", "-", "k", "e", "y", "s">>
N_public_ipv4 == <<"p", "u", "b", "l", "i", "c", "-", "i", "p", "v", "4">>
N_public_ipv6 == <<"p", "u", "b", "l", "i", "c", "-", "i", "p", "v", "6">>
N_local_ipv4 == <<"l", "o", "c", "a", "l", "-", "i", "p", "v", "4">>
N_spot == <<"s", "p", "o", "t">>
N_slug == <<"s", "l", "u", "g">>
N_distro == <<"d", "i", "s", "t", "r", "o">>
N_version == <<"v", "e", "r", "s", "i", "o", "n">>
N_license_activation == <<"l", "i", "c", "e", "n", "s", "e", "_", "a", "c", "t", "i", "v", "a", "t", "i", "o", "n">>
N_image_tag == <<"i", "m", "a", "g", "e", "_", "t", "a", "g">>
N_state == <<"s", "t", "a", "t", "e">>
N_termination_time == <<"t", "e", "r", "m", "i", "n", "a", "t", "i", "o", "n", "-", "t", "i", "m", "e">>

\* "/a/b/c" from <<a, b, c>>; the empty path from <<>>.
RECURSIVE PathKey(_)
PathKey(segs) == IF segs = <<>> THEN <<>> ELSE <<"/">> \o Head(segs) \o PathKey(Tail(segs))

\* "meta-data", "user-data"
BaseListing == Comma(Lit(JStr(N_meta_data)), Lit(JStr(N_user_data)))

\* The listing of /meta-data with the sort left out.
MetaDataListingUnsorted ==
    Pipe(Add(StrArray(<<N_instance_id, N_hostname, N_local_hostname, N_iqn, N_plan,
                        N_facility, N_tags, N_operating_system, N_public_keys,
                        N_public_ipv4, N_public_ipv6, N_local_ipv4>>),
             IfThenElse(Neq(PathOf(<<"metadata", "instance", "spot">>), Lit(JNull)),
                        StrArray(<<N_spot>>), StrArray(<<>>))),
         Iter)

\* ["instance-id", "hostname", "local-hostname", "iqn", "plan", "facility", "tags",
\*  "operating-system", "public-keys", "public-ipv4", "public-ipv6", "local-ipv4"]
\*  + (if .metadata.instance.spot != null then ["spot"] else [] end) | sort | .[]
MetaDataListing ==
    Pipe(Add(StrArray(<<N_instance_id, N_hostname, N_local_hostname, N_iqn, N_plan,
                        N_facility, N_tags, N_operating_system, N_public_keys,
                        N_public_ipv4, N_public_ipv6, N_local_ipv4>>),
             IfThenElse(Neq(PathOf(<<"metadata", "instance", "spot">>), Lit(JNull)),
                        StrArray(<<N_spot>>), StrArray(<<>>))),
         Pipe(Sort, Iter))

\* The listing of /meta-data/operating-system with "image_tag" forgotten.
OperatingSystemListingStale ==
    Pipe(StrArray(<<N_slug, N_distro, N_version, N_license_activation>>), Pipe(Sort, Iter))

\* ["slug", "distro", "version", "license_activation", "image_tag"] | sort | .[]
OperatingSystemListing ==
    Pipe(StrArray(<<N_slug, N_distro, N_version, N_license_activation, N_image_tag>>),
         Pipe(Sort, Iter))

\* "state"
LicenseActivationListing == Lit(JStr(N_state))

\* "termination-time"
SpotListing == Lit(JStr(N_termination_time))

\* .metadata.instance.<field>[] with the ? left out.
ListQueryUnguarded(field) == Pipe(PathOf(<<"metadata", "instance", field>>), Iter)

\* .metadata.instance.<field>[]?  The ? guards the iteration alone: the path in
\* front of it is evaluated unguarded.
ListQuery(field) == Pipe(PathOf(<<"metadata", "instance", field>>), Try(Iter))

\* .metadata.instance.network.addresses[]?
\*   | select(.address_family == F and .public == P) | .address
AddressQuery(family, public) ==
    Pipe(Pipe(PathOf(<<"metadata", "instance", "network", "addresses">>), Try(Iter)),
         Pipe(Select(And(Eq(Field("address_family"), Lit(JNum(family))),
                         Eq(Field("public"), Lit(JBool(public))))),
              Field("address")))

ec2Filters ==
    PathKey(<<>>) :> BaseListing @@
    PathKey(<<N_user_data>>) :> PathOf(<<"metadata", "userdata">>) @@
    PathKey(<<N_meta_data>>) :> MetaDataListing @@
    PathKey(<<N_meta_data, N_instance_id>>) :> PathOf(<<"metadata", "instance", "id">>) @@
    PathKey(<<N_meta_data, N_hostname>>) :> PathOf(<<"metadata", "instance", "hostname">>) @@
    PathKey(<<N_meta_data, N_local_hostname>>) :> PathOf(<<"metadata", "instance", "hostname">>) @@
    PathKey(<<N_meta_data, N_iqn>>) :> PathOf(<<"metadata", "instance", "iqn">>) @@
    PathKey(<<N_meta_data, N_plan>>) :> PathOf(<<"metadata", "instance", "plan">>) @@
    PathKey(<<N_meta_data, N_facility>>) :> PathOf(<<"metadata", "instance", "facility">>) @@
    PathKey(<<N_meta_data, N_tags>>) :> ListQuery("tags") @@
    PathKey(<<N_meta_data, N_operating_system>>) :> OperatingSystemListing @@
    PathKey(<<N_meta_data, N_operating_system, N_slug>>) :>
        PathOf(<<"metadata", "instance", "operating_system", "slug">>) @@
    PathKey(<<N_meta_data, N_operating_system, N_distro>>) :>
        PathOf(<<"metadata", "instance", "operating_system", "distro">>) @@
    PathKey(<<N_meta_data, N_operating_system, N_version>>) :>
        PathOf(<<"metadata", "instance", "operating_system", "version">>) @@
    PathKey(<<N_meta_data, N_operating_system, N_license_activation>>) :>
        LicenseActivationListing @@
    PathKey(<<N_meta_data, N_operating_system, N_license_activation, N_state>>) :>
        PathOf(<<"metadata", "instance", "operating_system", "license_activation", "state">>) @@
    PathKey(<<N_meta_data, N_operating_system, N_image_tag>>) :>
        PathOf(<<"metadata", "instance", "operating_system", "image_tag">>) @@
    PathKey(<<N_meta_data, N_public_keys>>) :> ListQuery("ssh_keys") @@
    PathKey(<<N_meta_data, N_spot>>) :> SpotListing @@
    PathKey(<<N_meta_data, N_spot, N_termination_time>>) :>
        PathOf(<<"metadata", "instance", "spot", "termination_time">>) @@
    PathKey(<<N_meta_data, N_public_ipv4>>) :> AddressQuery(4, TRUE) @@
    PathKey(<<N_meta_data, N_public_ipv6>>) :> AddressQuery(6, TRUE) @@
    PathKey(<<N_meta_data, N_local_ipv4>>) :> AddressQuery(4, FALSE)

-----------------------------------------------------------------------------
(* filterMetadata and processEC2Query *)

\* The bytes of an export that are not JSON at all.
Malformed == [t |-> "malformed", v |-> 0]

\* json.Unmarshal(hw, &input) into a fresh map[string]interface{}: an object
\* fills the map, null leaves it empty, anything else is an error.
Unmarshal(hw) ==
    CASE hw.t = "obj" -> [err |-> FALSE, input |-> hw]
      [] hw.t = "null" -> [err |-> FALSE, input |-> JObj(EmptyMap)]
      [] OTHER -> [err |-> TRUE, input |-> JNull]

\* The loop over the iterator with the buffer `result`, and the final trim.
\* rendered counts the items written to the buffer.
RECURSIVE RenderLoop(_, _, _)
RenderLoop(iter, result, rendered) ==
    IF iter = <<>>
    THEN [err |-> "", out |-> TrimSuffix(result, NL), rendered |-> rendered]
    ELSE LET x == Head(iter) IN
         CASE x.t = "null" -> RenderLoop(Tail(iter), result, rendered)
           [] x.t = "error" -> [err |-> "runtime", out |-> <<>>, rendered |-> rendered]
           [] x.t = "str" -> RenderLoop(Tail(iter), result \o x.v \o NL, rendered + 1)
           [] OTHER ->
                IF ~Marshalable(x)
                THEN [err |-> "marshal", out |-> <<>>, rendered |-> rendered]
                ELSE RenderLoop(Tail(iter), result \o Marshal(x) \o NL, rendered + 1)

\* A filterMetadata that returns the buffer along with a stream error.
filterMetadataPartial(hw, filter) ==
    IF filter = SyntaxError
    THEN [err |-> "compile", out |-> <<>>, rendered |-> 0, iter |-> <<>>]
    ELSE LET u == Unmarshal(hw) IN
         IF u.err
         THEN [err |-> "parse", out |-> <<>>, rendered |-> 0, iter |-> <<>>]
         ELSE LET iter == Eval(filter, u.input)
                  r == RenderLoop(iter, <<>>, 0)
              IN  [err |-> r.err,
                   out |-> IF r.err = "" THEN r.out
                           ELSE RenderLoop(SelectSeq(BeforeErr(iter), Marshalable), <<>>, 0).out,
                   rendered |-> r.rendered, iter |-> iter]

\* filterMetadata(hw, filter): err is "" for a nil error; out is the returned
\* bytes (empty for nil); iter is what the iterator yielded.
filterMetadata(hw, filter) ==
    IF filter = SyntaxError
    THEN [err |-> "compile", out |-> <<>>, rendered |-> 0, iter |-> <<>>]
    ELSE LET u == Unmarshal(hw) IN
         IF u.err
         THEN [err |-> "parse", out |-> <<>>, rendered |-> 0, iter |-> <<>>]
         ELSE LET iter == Eval(filter, u.input)
                  r == RenderLoop(iter, <<>>, 0)
              IN  [err |-> r.err, out |-> r.out, rendered |-> r.rendered, iter |-> iter]

VersionPrefix == <<"/", "2", "0", "0", "9", "-", "0", "4", "-", "0", "4">>

\* A canonical key that loses one trailing slash at most.
CanonicalKeyOneSlash(url) == TrimSuffix(TrimPrefix(url, VersionPrefix), <<"/">>)

\* strings.TrimRight(strings.TrimPrefix(url, "/2009-04-04"), "/")
CanonicalKey(url) == TrimRight(TrimPrefix(url, VersionPrefix), {"/"})

\* A processEC2Query that falls back to the base listing for an unknown key.
processEC2QueryFallback(url) ==
    LET q == CanonicalKey(url) IN
    IF q \in DOMAIN ec2Filters
    THEN [err |-> FALSE, filter |-> ec2Filters[q]]
    ELSE [err |-> FALSE, filter |-> ec2Filters[<<>>]]

\* processEC2Query(url): the registered filter, or an error.
processEC2Query(url) ==
    LET q == CanonicalKey(url) IN
    IF q \in DOMAIN ec2Filters
    THEN [err |-> FALSE, filter |-> ec2Filters[q]]
    ELSE [err |-> TRUE, filter |-> Identity]   \* "", never used

-----------------------------------------------------------------------------
(* The handlers *)

StatusOK == 200
StatusNotFound == 404
StatusMethodNotAllowed == 405
StatusInternalServerError == 500

NotFoundBody == <<"4", "0", "4", " ", "n", "o", "t", " ", "f", "o", "u", "n", "d">>

\* http.ResponseWriter: status 0 until a header is written.
NewResponse == [status |-> 0, body |-> <<>>, wroteHeader |-> FALSE]

WriteHeader(w, code) ==
    IF w.wroteHeader THEN w ELSE [w EXCEPT !.status = code, !.wroteHeader = TRUE]

\* Write sends the header with 200 first when none was written.
Write(w, b) == [WriteHeader(w, StatusOK) EXCEPT !.body = @ \o b]

\* net/http when the handler returns: a response never started goes out as 200.
Finish(w) == WriteHeader(w, StatusOK)

RECURSIVE LastIndex(_, _)
LastIndex(s, c) ==
    IF s = <<>> THEN 0 ELSE IF s[Len(s)] = c THEN Len(s) ELSE LastIndex(SubSeq(s, 1, Len(s) - 1), c)

Contains(s, c) == \E i \in 1..Len(s) : s[i] = c

\* net.SplitHostPort, the host alone: "" on any error.
SplitHost(addr) ==
    LET i == LastIndex(addr, ":") IN
    IF addr[1] = "["
    THEN LET j == LastIndex(addr, "]") IN
         IF j = 0 \/ j + 1 # i THEN <<>> ELSE SubSeq(addr, 2, j - 1)
    ELSE LET host == SubSeq(addr, 1, i - 1) IN
         IF Contains(host, ":") THEN <<>> ELSE host

getIPFromRequest(r) ==
    IF Contains(r.remoteAddr, ":") THEN SplitHost(r.remoteAddr) ELSE r.remoteAddr

\* What a request left behind when a step was not reached.
NoQuery == [called |-> FALSE, err |-> FALSE, filter |-> Identity]
NoCall == [calls |-> 0, err |-> "", out |-> <<>>, rendered |-> 0, iter |-> <<>>]

Called(q) == [called |-> TRUE, err |-> q.err, filter |-> q.filter]
Ran(f) == [calls |-> 1, err |-> f.err, out |-> f.out, rendered |-> f.rendered, iter |-> f.iter]

\* The bytes hw.Export() returned.
ExportBytes(hw) == IF hw = Malformed THEN <<"{">> ELSE Marshal(hw)

\* The body of the handler ec2MetadataHandler returns, on request r.
ec2Serve(r) ==
    LET w == NewResponse IN
    IF r.method # "GET"
    THEN [w |-> WriteHeader(w, StatusMethodNotAllowed), query |-> NoQuery, fm |-> NoCall]
    ELSE IF getIPFromRequest(r) = <<>>
    THEN [w |-> w, query |-> NoQuery, fm |-> NoCall]
    ELSE IF r.lookupErr
    THEN [w |-> WriteHeader(w, StatusNotFound), query |-> NoQuery, fm |-> NoCall]
    ELSE IF r.exportErr
    THEN [w |-> Write(WriteHeader(w, StatusInternalServerError), NotFoundBody),
          query |-> NoQuery, fm |-> NoCall]
    ELSE LET q == processEC2Query(r.path) IN
         IF q.err
         THEN [w |-> Write(WriteHeader(w, StatusNotFound), NotFoundBody),
               query |-> Called(q), fm |-> NoCall]
         ELSE LET f == filterMetadata(r.ehw, q.filter) IN
              \* the error is logged and the handler goes on to write resp
              [w |-> Write(w, f.out), query |-> Called(q), fm |-> Ran(f)]

\* The body of the handler getMetadataHandler(logger, client, filter, model) returns.
metadataServe(r) ==
    LET w == NewResponse IN
    IF r.method # "GET"
    THEN [w |-> WriteHeader(w, StatusMethodNotAllowed), query |-> NoQuery, fm |-> NoCall]
    ELSE IF getIPFromRequest(r) = <<>>
    THEN [w |-> w, query |-> NoQuery, fm |-> NoCall]
    ELSE IF r.lookupErr
    THEN [w |-> WriteHeader(w, StatusNotFound), query |-> NoQuery, fm |-> NoCall]
    ELSE IF r.exportErr
    THEN [w |-> WriteHeader(w, StatusInternalServerError), query |-> NoQuery, fm |-> NoCall]
    ELSE IF r.model \in {"TinkServer", "Kubernetes"}
    THEN LET f == filterMetadata(r.ehw, r.filter) IN
         IF f.err # ""
         THEN [w |-> WriteHeader(w, StatusInternalServerError), query |-> NoQuery, fm |-> Ran(f)]
         ELSE [w |-> Write(WriteHeader(w, StatusOK), f.out), query |-> NoQuery, fm |-> Ran(f)]
    ELSE [w |-> Write(WriteHeader(w, StatusOK), ExportBytes(r.ehw)),
          query |-> NoQuery, fm |-> NoCall]

-----------------------------------------------------------------------------
(* The requests and exported documents the model serves *)

\* Most trailing slashes on a request path.
MaxTrailingSlashes == 2
\* Longest tags list in a document.
MaxTags == 2
\* Longest result stream of a filter given to getMetadataHandler.
MaxStream == 3

SeqsUpTo(S, n) == UNION {[1..k -> S] : k \in 0..n}

sA == <<"a">>
sB == <<"b">>
sX == <<"x">>

AddrPublic4 == JObj([address_family |-> JNum(4), public |-> JBool(TRUE), address |-> JStr(<<"1", ".", "2">>)])
AddrLocal4 == JObj([address_family |-> JNum(4), public |-> JBool(FALSE), address |-> JStr(<<"1", "0", ".", "0">>)])
AddrPublic6 == JObj([address_family |-> JNum(6), public |-> JBool(TRUE), address |-> JStr(<<":", ":", "1">>)])
AddrNoAddress == JObj([address_family |-> JNum(4), public |-> JBool(TRUE)])
AddrOther4 == JObj([address_family |-> JNum(4), public |-> JBool(TRUE), address |-> JStr(<<"3", ".", "4">>)])

FullInstance ==
    [id |-> JStr(<<"i", "-", "1">>), hostname |-> JStr(<<"h", "1">>), iqn |-> JStr(<<"q">>),
     plan |-> JStr(<<"p">>), facility |-> JStr(<<"f">>),
     tags |-> JArr(<<JStr(sA), JStr(sB)>>), ssh_keys |-> JArr(<<JStr(<<"k", "1">>)>>),
     operating_system |->
        JObj([slug |-> JStr(<<"s">>), distro |-> JStr(<<"d">>), version |-> JStr(<<"7">>),
              image_tag |-> JStr(<<"t">>),
              license_activation |-> JObj([state |-> JStr(<<"o", "n">>)])]),
     network |-> JObj([addresses |-> JArr(<<AddrPublic4, AddrLocal4, AddrPublic6>>)]),
     spot |-> JObj([termination_time |-> JStr(<<"t", "0">>)])]

TagLists == SeqsUpTo({JStr(sA), JStr(sB), JNull}, MaxTags)

\* metadata.instance objects: the empty one, a full one, and one per shape of
\* each attribute the registry reads (absent, null, of the wrong type, present).
Instances ==
    {EmptyMap, FullInstance} \cup
    {[hostname |-> x] : x \in {JNull, JNum(5), JStr(<<>>), JStr(<<"h", "1">>), JObj([id |-> JNum(1)])}} \cup
    {[id |-> JStr(<<"i", "-", "1">>)], [iqn |-> JNull], [plan |-> JBool(TRUE)], [facility |-> JStr(<<"f">>)]} \cup
    {[tags |-> JArr(l)] : l \in TagLists} \cup
    {[tags |-> x] : x \in {JNull, JStr(sX), JArr(<<JNum(5), JBool(TRUE), JArr(<<JStr(sA)>>)>>),
                           JObj([state |-> JStr(sB), id |-> JStr(sA)])}} \cup
    {[ssh_keys |-> x] : x \in {JNull, JArr(<<JStr(<<"k", "1">>), JStr(<<"k", "2">>)>>), JNum(0)}} \cup
    {[spot |-> x] : x \in {JNull, JObj(EmptyMap), JStr(sX), JBool(FALSE),
                           JObj([termination_time |-> JNull]),
                           JObj([termination_time |-> JStr(<<"t", "0">>)])}} \cup
    {[operating_system |-> x] : x \in {JNull, JStr(sX), JObj(EmptyMap),
                           JObj([slug |-> JStr(<<"s">>)]),
                           JObj([license_activation |-> JNull]),
                           JObj([license_activation |-> JStr(sX)]),
                           JObj([license_activation |-> JObj([state |-> JNull])])}} \cup
    {[network |-> x] : x \in {JNull, JStr(sX), JObj(EmptyMap), JObj([addresses |-> JNull])}} \cup
    {[network |-> JObj([addresses |-> JArr(l)])] : l \in
        {<<>>, <<AddrNoAddress>>, <<AddrPublic4, JStr(sX)>>, <<JStr(sX), AddrPublic4>>,
         <<JNull, AddrLocal4>>, <<AddrPublic4, AddrLocal4, AddrOther4, JNum(7)>>,
         <<AddrPublic4, AddrPublic6, AddrOther4>>}}

Metadatas ==
    {[instance |-> JObj(i)] : i \in Instances} \cup
    {EmptyMap, [instance |-> JNull], [instance |-> JStr(sX)], [instance |-> JArr(<<>>)],
     [userdata |-> JStr(<<"u">>)], [userdata |-> JNull],
     [userdata |-> JStr(<<"u", "\n">>), instance |-> JObj(FullInstance)]}

\* What hw.Export() can hand back: JSON objects, and bytes that are no object.
Exports ==
    {JObj([metadata |-> JObj(m)]) : m \in Metadatas} \cup
    {JObj(EmptyMap), JObj([metadata |-> JNull]), JObj([metadata |-> JStr(sX)]),
     JObj([metadata |-> JNum(1)]), JObj([id |-> JStr(sA), metadata |-> JObj([instance |-> JObj(FullInstance)])]),
     JNull, JArr(<<>>), JStr(sX), Malformed}

RECURSIVE Slashes(_)
Slashes(n) == IF n = 0 THEN <<>> ELSE <<"/">> \o Slashes(n - 1)

\* Paths that are no registry key.
OtherPaths ==
    {PathKey(<<N_meta_data, <<"n", "o", "n", "e">>>>), PathKey(<<N_meta_data, <<"h", "o", "s", "t">>>>),
     PathKey(<<N_meta_data, N_hostname, sX>>), PathKey(<<N_hostname>>), PathKey(<<N_spot>>),
     PathKey(<<<<"m", "e", "t", "a">>>>), N_meta_data, VersionPrefix,
     VersionPrefix \o PathKey(<<N_meta_data>>), PathKey(<<<<>>, N_meta_data>>),
     PathKey(<<N_meta_data, <<>>, N_hostname>>)}

\* Request paths: each with and without the version prefix, with 0..MaxTrailingSlashes
\* slashes appended. A request path starts with a slash.
Paths ==
    {u \in {pre \o p \o Slashes(n) : pre \in {VersionPrefix, <<>>},
                                     p \in DOMAIN ec2Filters \cup OtherPaths,
                                     n \in 0..MaxTrailingSlashes} :
        u # <<>> /\ u[1] = "/"}

RemoteAddrs ==
    {<<"1", ".", "2", ":", "8", "0">>, <<"1", ".", "2">>, <<>>, <<":", "8", "0">>,
     <<"[", ":", ":", "1", "]", ":", "8", "0">>, <<":", ":", "1">>, <<"[", ":", ":", "1">>}

Methods == {"GET", "POST", "HEAD"}

DataModels == {"TinkServer", "Kubernetes", ""}

StreamValues ==
    {JNull, JStr(<<>>), JStr(sA), JStr(<<"b", "\n">>), JNum(12),
     JArr(<<JStr(<<"a", "\"">>), JNull, JBool(FALSE)>>), JNaN, JErr}

\* The jq filter  v1, v2, ..., vn  (empty for n = 0; error for an error value).
RECURSIVE StreamFilter(_)
StreamFilter(s) ==
    LET one(x) == IF x = JErr THEN Error ELSE Lit(x) IN
    IF s = <<>> THEN Empty
    ELSE IF Len(s) = 1 THEN one(s[1])
    ELSE Comma(one(s[1]), StreamFilter(Tail(s)))

\* Filters getMetadataHandler is built with.
Filters ==
    {StreamFilter(s) : s \in SeqsUpTo(StreamValues, MaxStream)} \cup
    {SyntaxError, Identity, PathOf(<<"metadata">>), PathOf(<<"metadata", "instance">>)}

GoodAddr == <<"1", ".", "2", ":", "8", "0">>

Request(handler, method, remoteAddr, lookupErr, exportErr, ehw, path, filter, model) ==
    [handler |-> handler, method |-> method, remoteAddr |-> remoteAddr,
     lookupErr |-> lookupErr, exportErr |-> exportErr, ehw |-> ehw,
     path |-> path, filter |-> filter, model |-> model]

\* Requests that reach the EC2 handler: every path against every export, and
\* every way of failing before the path is looked at.
EC2Requests ==
    {Request("ec2", "GET", GoodAddr, FALSE, FALSE, d, p, Identity, "") :
        d \in Exports, p \in Paths} \cup
    {Request("ec2", m, a, l, e, JObj([metadata |-> JObj([instance |-> JObj(FullInstance)])]),
             VersionPrefix \o p, Identity, "") :
        m \in Methods, a \in RemoteAddrs, l \in BOOLEAN, e \in BOOLEAN,
        p \in {PathKey(<<N_meta_data, N_hostname>>), PathKey(<<N_hostname>>)}}

\* Requests that reach a handler built by getMetadataHandler.
MetadataRequests ==
    {Request("metadata", "GET", GoodAddr, FALSE, FALSE, d, <<"/">>, f, "TinkServer") :
        d \in {JObj([metadata |-> JObj([instance |-> JObj(FullInstance)])])}, f \in Filters} \cup
    {Request("metadata", m, a, l, e, d, <<"/">>, f, dm) :
        m \in Methods, a \in {GoodAddr, <<>>}, l \in BOOLEAN, e \in BOOLEAN,
        d \in {JObj([metadata |-> JObj([instance |-> JObj(FullInstance)])]), Malformed, JNull},
        f \in {SyntaxError, PathOf(<<"metadata", "instance", "hostname">>),
               Comma(Lit(JStr(sA)), Error)},
        dm \in DataModels}

NoRequest == Request("", "", <<>>, FALSE, FALSE, JNull, <<>>, Identity, "")

-----------------------------------------------------------------------------
(* The state machine: a request arrives, its handler runs, the response goes out *)

Init ==
    /\ pc = "idle"
    /\ req = NoRequest
    /\ resp = NewResponse
    /\ query = NoQuery
    /\ fm = NoCall

\* The server hands a request to its handler.
Accept ==
    /\ pc = "idle"
    /\ req' \in EC2Requests \cup MetadataRequests
    /\ pc' = "pending"
    /\ UNCHANGED <<resp, query, fm>>

ec2MetadataHandler ==
    /\ pc = "pending"
    /\ req.handler = "ec2"
    /\ LET r == ec2Serve(req) IN
        /\ resp' = Finish(r.w)
        /\ query' = r.query
        /\ fm' = r.fm
    /\ pc' = "done"
    /\ UNCHANGED req

getMetadataHandler ==
    /\ pc = "pending"
    /\ req.handler = "metadata"
    /\ LET r == metadataServe(req) IN
        /\ resp' = Finish(r.w)
        /\ query' = r.query
        /\ fm' = r.fm
    /\ pc' = "done"
    /\ UNCHANGED req

\* Nothing of a request outlives it.
Close ==
    /\ pc = "done"
    /\ pc' = "idle"
    /\ req' = NoRequest
    /\ resp' = NewResponse
    /\ query' = NoQuery
    /\ fm' = NoCall

Next == Accept \/ ec2MetadataHandler \/ getMetadataHandler \/ Close

Spec == Init /\ [][Next]_vars

-----------------------------------------------------------------------------
(* Properties *)

\* A request the EC2 handler has answered.
EC2Done == pc = "done" /\ req.handler = "ec2"

\* A request for which the EC2 handler reached the registry lookup.
EC2Resolved == EC2Done /\ query.called

Key == CanonicalKey(req.path)

Parent(k) == SubSeq(k, 1, LastIndex(k, "/") - 1)
LastSegment(k) == SubSeq(k, LastIndex(k, "/") + 1, Len(k))

\* The registry seen as a tree: the entries right below d, and the entries
\* that have entries below them.
Children(d) == {LastSegment(k) : k \in {c \in DOMAIN ec2Filters : c # <<>> /\ Parent(c) = d}}
Directories == {Parent(k) : k \in DOMAIN ec2Filters \ {<<>>}}

\* The strings a result stream holds.
Names(iter) == {iter[i].v : i \in {j \in 1..Len(iter) : iter[j].t = "str"}}

\* The value at the end of a chain of keys, or Absent when a key is missing or
\* the chain runs into something that is no object.
Absent == [t |-> "absent", v |-> 0]
RECURSIVE Walk(_, _)
Walk(x, ks) ==
    IF ks = <<>> THEN x
    ELSE IF x.t = "obj" /\ Head(ks) \in DOMAIN x.v THEN Walk(x.v[Head(ks)], Tail(ks))
    ELSE Absent

\* The chain ends early, or at its end, in a missing key or a null, and every
\* value before that is an object.
RECURSIVE AbsentOrNull(_, _)
AbsentOrNull(x, ks) ==
    IF x.t = "null" THEN TRUE
    ELSE IF ks = <<>> THEN FALSE
    ELSE IF x.t = "obj"
         THEN Head(ks) \notin DOMAIN x.v \/ AbsentOrNull(x.v[Head(ks)], Tail(ks))
         ELSE FALSE

\* Items joined by single newlines.
ItemText(x) == IF x.t = "str" THEN x.v ELSE Marshal(x)
RECURSIVE JoinLines(_)
JoinLines(items) ==
    IF items = <<>> THEN <<>>
    ELSE IF Len(items) = 1 THEN ItemText(items[1])
    ELSE ItemText(items[1]) \o NL \o JoinLines(Tail(items))

NotNull(x) == x.t # "null"

\* C1: a request whose canonical key is not in ec2Filters never reaches
\* filterMetadata; when the handler got as far as the lookup, the lookup fails
\* outright (no fallback entry is used) and the response is 404 with the body
\* "404 not found".
C1_UnknownPathIs404 ==
    (EC2Done /\ Key \notin DOMAIN ec2Filters) =>
        /\ fm.calls = 0
        /\ query.called =>
            /\ query.err
            /\ resp.status = StatusNotFound
            /\ resp.body = NotFoundBody

\* C1 witness: a path that extends a registered key was looked up and refused.
C1_Witness ==
    /\ EC2Resolved
    /\ req.path = VersionPrefix \o PathKey(<<N_meta_data, N_hostname, sX>>)
    /\ query.err
    /\ resp.status = StatusNotFound
    /\ resp.body = NotFoundBody
    /\ fm.calls = 0

\* The children of /meta-data in sorted order, with or without "spot".
SortedMetaData(withSpot) ==
    <<N_facility, N_hostname, N_instance_id, N_iqn, N_local_hostname, N_local_ipv4,
      N_operating_system, N_plan, N_public_ipv4, N_public_ipv6, N_public_keys>> \o
    (IF withSpot THEN <<N_spot>> ELSE <<>>) \o <<N_tags>>

StrictlySorted(names) == \A i \in 1..(Len(names) - 1) : StrLess(names[i], names[i + 1])

SpotNonNull(doc) == Walk(doc, <<"metadata", "instance", "spot">>) \notin {Absent, JNull}

\* metadata and metadata.instance are each absent, null or an object.
InstanceReadable(doc) ==
    /\ Walk(doc, <<"metadata">>).t \in {"absent", "null", "obj"}
    /\ Walk(doc, <<"metadata", "instance">>).t \in {"absent", "null", "obj"}

MetaDataListingIsExact ==
    LET names == SortedMetaData(SpotNonNull(req.ehw)) IN
    /\ StrictlySorted(names)
    /\ fm.err = ""
    /\ resp.body = JoinLines([i \in 1..Len(names) |-> JStr(names[i])])

\* C2 as stated: for every instance document (a JSON object), the listing of
\* /meta-data is the sorted twelve names, plus "spot" exactly when
\* metadata.instance.spot is present and not null.
C2_ListingForEveryDocument ==
    (EC2Resolved /\ Key = PathKey(<<N_meta_data>>) /\ req.ehw.t = "obj") =>
        MetaDataListingIsExact

\* C2 amended: the same, for every instance document in which metadata and
\* metadata.instance are each absent, null or an object.
C2_ListingForReadableDocument ==
    (EC2Resolved /\ Key = PathKey(<<N_meta_data>>) /\ req.ehw.t = "obj"
        /\ InstanceReadable(req.ehw)) =>
        MetaDataListingIsExact

\* C2 witness: a listing with "spot" in it, between "public-keys" and "tags".
C2_Witness ==
    /\ EC2Resolved
    /\ Key = PathKey(<<N_meta_data>>)
    /\ SpotNonNull(req.ehw)
    /\ resp.status = StatusOK
    /\ Names(fm.iter) = Children(PathKey(<<N_meta_data>>))
    /\ HasSuffix(resp.body, NL \o N_public_keys \o NL \o N_spot \o NL \o N_tags)

\* C3: when no error ends the stream, filterMetadata returns the texts of the
\* non-null items (a string as it is, anything else as JSON) joined by single
\* newlines, with nothing after the last one; no items, no bytes.
C3_RenderJoinsNonNull ==
    (pc = "done" /\ fm.calls = 1 /\ fm.err = "") =>
        LET items == SelectSeq(fm.iter, NotNull) IN
        /\ fm.out = JoinLines(items)
        /\ fm.rendered = Len(items)
        /\ items = <<>> => fm.out = <<>>
        /\ resp.body = fm.out

\* C3 witness: a null, an empty string, a string that ends in a newline and a
\* number were rendered.
C3_Witness ==
    /\ pc = "done"
    /\ fm.calls = 1
    /\ fm.err = ""
    /\ fm.iter = <<JNull, JStr(<<"b", "\n">>), JNum(12)>>
    /\ fm.out = <<"b", "\n", "\n", "1", "2">>

\* C4: the registry is a consistent tree.  Its directories are the five entries
\* that have entries below them, and what a directory lists (counting "spot" for
\* /meta-data) is exactly the set of names of the entries right below it.
C4_RegistryIsTree ==
    /\ Directories = {<<>>, PathKey(<<N_meta_data>>),
                      PathKey(<<N_meta_data, N_operating_system>>),
                      PathKey(<<N_meta_data, N_operating_system, N_license_activation>>),
                      PathKey(<<N_meta_data, N_spot>>)}
    /\ (EC2Resolved /\ ~query.err /\ fm.err = "" /\ Key \in Directories) =>
        /\ \A i \in 1..Len(fm.iter) : fm.iter[i].t = "str"
        /\ Names(fm.iter) \cup (IF Key = PathKey(<<N_meta_data>>) THEN {N_spot} ELSE {})
              = Children(Key)

\* C4 witness: /meta-data/operating-system listed its five entries.
C4_Witness ==
    /\ EC2Resolved
    /\ Key = PathKey(<<N_meta_data, N_operating_system>>)
    /\ fm.err = ""
    /\ Names(fm.iter) = {N_slug, N_distro, N_version, N_license_activation, N_image_tag}
    /\ Cardinality(Children(Key)) = 5

\* The path resolved and the client was answered 200.
ServedOK == EC2Resolved /\ ~query.err /\ resp.status = StatusOK

\* What directory d lists for a document.
Listing(d, doc) == filterMetadata(doc, ec2Filters[d])

\* C5: for every document and every path right below a directory whose listing
\* is rendered for the document, the path is reachable (it resolves and is
\* answered 200) exactly when the listing names it.
C5_ListingMatchesReachable ==
    (EC2Resolved /\ req.ehw.t = "obj" /\ LastIndex(Key, "/") > 0
        /\ Parent(Key) \in Directories /\ Listing(Parent(Key), req.ehw).err = "") =>
        (ServedOK <=> LastSegment(Key) \in Names(Listing(Parent(Key), req.ehw).iter))

\* C6: when filterMetadata returns an error, the EC2 handler does not answer 200.
C6_FilterErrorIsNotOK ==
    (EC2Done /\ fm.calls = 1 /\ fm.err # "") => resp.status # StatusOK

\* The attribute each data path reads, as a chain of keys of the document.
DataChain ==
    PathKey(<<N_user_data>>) :> <<"metadata", "userdata">> @@
    PathKey(<<N_meta_data, N_instance_id>>) :> <<"metadata", "instance", "id">> @@
    PathKey(<<N_meta_data, N_hostname>>) :> <<"metadata", "instance", "hostname">> @@
    PathKey(<<N_meta_data, N_local_hostname>>) :> <<"metadata", "instance", "hostname">> @@
    PathKey(<<N_meta_data, N_iqn>>) :> <<"metadata", "instance", "iqn">> @@
    PathKey(<<N_meta_data, N_plan>>) :> <<"metadata", "instance", "plan">> @@
    PathKey(<<N_meta_data, N_facility>>) :> <<"metadata", "instance", "facility">> @@
    PathKey(<<N_meta_data, N_tags>>) :> <<"metadata", "instance", "tags">> @@
    PathKey(<<N_meta_data, N_operating_system, N_slug>>) :>
        <<"metadata", "instance", "operating_system", "slug">> @@
    PathKey(<<N_meta_data, N_operating_system, N_distro>>) :>
        <<"metadata", "instance", "operating_system", "distro">> @@
    PathKey(<<N_meta_data, N_operating_system, N_version>>) :>
        <<"metadata", "instance", "operating_system", "version">> @@
    PathKey(<<N_meta_data, N_operating_system, N_license_activation, N_state>>) :>
        <<"metadata", "instance", "operating_system", "license_activation", "state">> @@
    PathKey(<<N_meta_data, N_operating_system, N_image_tag>>) :>
        <<"metadata", "instance", "operating_system", "image_tag">> @@
    PathKey(<<N_meta_data, N_public_keys>>) :> <<"metadata", "instance", "ssh_keys">> @@
    PathKey(<<N_meta_data, N_spot, N_termination_time>>) :>
        <<"metadata", "instance", "spot", "termination_time">> @@
    PathKey(<<N_meta_data, N_public_ipv4>>) :> <<"metadata", "instance", "network", "addresses">> @@
    PathKey(<<N_meta_data, N_public_ipv6>>) :> <<"metadata", "instance", "network", "addresses">> @@
    PathKey(<<N_meta_data, N_local_ipv4>>) :> <<"metadata", "instance", "network", "addresses">>

\* C7: on a data path whose attribute, or an object on the way to it, is absent
\* or null in the document, filterMetadata returns no error and no bytes, and
\* the response is 200 with an empty body.
C7_AbsenceIsTolerated ==
    (EC2Resolved /\ Key \in DOMAIN DataChain /\ req.ehw.t = "obj"
        /\ AbsentOrNull(req.ehw, DataChain[Key])) =>
        /\ fm.calls = 1
        /\ fm.err = ""
        /\ fm.out = <<>>
        /\ resp.body = <<>>
        /\ resp.status = StatusOK

\* C7 witness: /meta-data/tags on a document whose tags are null.
C7_Witness ==
    /\ EC2Resolved
    /\ Key = PathKey(<<N_meta_data, N_tags>>)
    /\ Walk(req.ehw, <<"metadata", "instance", "tags">>) = JNull
    /\ fm.calls = 1
    /\ fm.err = ""
    /\ resp.body = <<>>

\* s is k followed by slashes alone, at most `most` of them.
KeyThenSlashes(s, k, most) ==
    /\ HasPrefix(s, k)
    /\ Len(s) - Len(k) <= most
    /\ \A i \in (Len(k) + 1)..Len(s) : s[i] = "/"

\* The path without one leading version prefix, written out by position.
AfterPrefix(path) ==
    IF HasPrefix(path, VersionPrefix)
    THEN [i \in 1..(Len(path) - Len(VersionPrefix)) |-> path[i + Len(VersionPrefix)]]
    ELSE path

\* C8 as stated: the lookup key is the path without the version prefix and
\* without at most one trailing slash (a path resolves exactly when it is the
\* prefix, a registry key and at most one slash), so a path with two or more
\* trailing slashes does not resolve.
C8_AtMostOneSlashRemoved ==
    (EC2Resolved /\ HasPrefix(req.path, VersionPrefix)) =>
        /\ ~query.err <=>
              \E k \in DOMAIN ec2Filters : KeyThenSlashes(AfterPrefix(req.path), k, 1)
        /\ HasSuffix(req.path, <<"/", "/">>) => query.err

\* C8 amended: the version prefix goes once and every trailing slash goes: a
\* path resolves exactly when it is the optional prefix, a registry key and any
\* number of slashes, and it resolves to the filter of that key.
C8_AllTrailingSlashesRemoved ==
    (EC2Resolved /\ HasPrefix(req.path, VersionPrefix)) =>
        /\ ~query.err <=>
              \E k \in DOMAIN ec2Filters :
                  KeyThenSlashes(AfterPrefix(req.path), k, Len(req.path))
        /\ \A k \in DOMAIN ec2Filters :
              KeyThenSlashes(AfterPrefix(req.path), k, Len(req.path)) =>
                  ~query.err /\ query.filter = ec2Filters[k]

\* C8 witness: /2009-04-04/meta-data// resolved to the listing of /meta-data.
C8_Witness ==
    /\ EC2Resolved
    /\ req.path = VersionPrefix \o PathKey(<<N_meta_data>>) \o <<"/", "/">>
    /\ ~query.err
    /\ query.filter = MetaDataListing
    /\ resp.status = StatusOK

\* C9 as stated: no path without the version prefix resolves.
C9_UnprefixedNeverResolves ==
    (EC2Resolved /\ ~HasPrefix(req.path, VersionPrefix)) => query.err

\* C9 amended: a path without the version prefix is looked up as it is, less its
\* trailing slashes: it resolves exactly when that is a registry key (as
\* "/meta-data" and "/" are), to the filter of that key, and is answered 404
\* otherwise.
C9_UnprefixedLookedUpAsIs ==
    (EC2Resolved /\ ~HasPrefix(req.path, VersionPrefix)) =>
        LET hit == {k \in DOMAIN ec2Filters : KeyThenSlashes(req.path, k, Len(req.path))} IN
        /\ query.err <=> hit = {}
        /\ \A k \in hit : query.filter = ec2Filters[k]
        /\ query.err => resp.status = StatusNotFound /\ resp.body = NotFoundBody

\* C9 witness: /meta-data/hostname, without the prefix, was served.
C9_Witness ==
    /\ EC2Resolved
    /\ req.path = PathKey(<<N_meta_data, N_hostname>>)
    /\ ~query.err
    /\ resp.status = StatusOK
    /\ resp.body = <<"h", "1">>

\* C10: when the stream ends in an error value, or a value cannot be marshalled,
\* filterMetadata returns no bytes, and the response body holds none of the
\* items rendered before.
C10_ErrorLeavesNoBytes ==
    (pc = "done" /\ fm.calls = 1 /\ fm.err \in {"runtime", "marshal"}) =>
        /\ fm.out = <<>>
        /\ resp.body = <<>>

\* C10 witness: the EC2 handler answered a request whose stream failed after an
\* item had been rendered.
C10_Witness ==
    /\ EC2Resolved
    /\ fm.calls = 1
    /\ fm.err = "runtime"
    /\ fm.rendered >= 1
    /\ Len(fm.iter) >= 2
    /\ resp.body = <<>>

====
